---- MODULE Spec2Model ----
(***************************************************************************)
(* RecipeStore (datastore.py): the work queue kept in the "queue"          *)
(* collection, the audit trail kept in the "action" collection, and the    *)
(* module-level mutex used by dequeue.                                     *)
(*                                                                         *)
(* A collection with a unique index is a set of documents; an insert or an *)
(* update that would break a unique index raises DuplicateKeyError and     *)
(* changes nothing.  Every statement of a method that reads or writes the  *)
(* store or the mutex is one step of the calling thread, so that calls of  *)
(* different threads interleave between the statements.                    *)
(*                                                                         *)
(* dt.now() is the local wall clock: it never runs backwards here, but two *)
(* readings may be equal.  Uris are the strings str(recipe_uri) yields.    *)
(***************************************************************************)
EXTENDS Integers, FiniteSets, Sequences, TLC

\* Bounds of the model: the last clock reading, and the number of calls made.
MaxClock == 1
MaxCalls == 3

\* tries_left = 10 (dequeue).
TRIES == 10

\* The threads that call the service, and the uris they pass.
Threads == {1, 2}
Uris == {"u1", "u2"}

\* mutex value when no thread has it locked.
Unlocked == 0

\* entry = None.
NoEntry == [uri |-> "", ts |-> 0, state |-> "none"]

VARIABLES
    queue,       \* self._queue: set of documents [uri, ts, state]
    action,      \* self._action: set of documents [uri, ts, act]
    mutex,       \* the module-level Lock: Unlocked, or the thread whose acquire locked it
    logger,      \* self._logger is not None
    clock,       \* the value dt.now() returns
    calls,       \* number of calls started so far
    pc,          \* per thread: the statement it is at ("idle" between calls)
    arg,         \* per thread: recipe_uri of its current call
    now,         \* per thread: local now
    tries_left,  \* per thread: local tries_left
    entry,       \* per thread: local entry
    result,      \* per thread: what its last call returned or raised ("-" while running)
    cls_instance,  \* RecipeStore._instance: 0 for None, else the number of the object
    constructed    \* number of RecipeStore objects constructed so far

vars == <<queue, action, mutex, logger, clock, calls,
          pc, arg, now, tries_left, entry, result, cls_instance, constructed>>

----------------------------------------------------------------------------
(* The store: documents, unique indices, queries.                          *)

\* The queue collection without idx_uri: no insert is rejected for its uri.
IdxUriViolated_NoIndex(q, d) == FALSE

\* idx_uri on queue: unique "uri".
IdxUriViolated(q, d) == \E e \in q : e.uri = d.uri

\* idx_ts on queue: unique ("state", "ts").
IdxTsViolated(q, d) == \E e \in q : e.state = d.state /\ e.ts = d.ts

\* queue.insert_one(d) raises DuplicateKeyError.
QueueInsertRejected(q, d) == IdxUriViolated(q, d) \/ IdxTsViolated(q, d)

\* idx_uri_ts and idx_ts on action: unique ("uri","ts","act") and ("ts","uri","act").
ActionInsertRejected(a, r) ==
    \E e \in a : e.uri = r.uri /\ e.ts = r.ts /\ e.act = r.act

\* A presence check that looks at the waiting entries only.
is_enqueued_WaitingOnly(q, u) == \E e \in q : e.uri = u /\ e.state = "wait"

\* self._queue.find({"uri": str(recipe_uri)}).count() > 0
is_enqueued(q, u) == \E e \in q : e.uri = u

\* The filter {"uri": u} of update_one and delete_one matches a document.
HasMatch(q, u) == \E e \in q : e.uri = u

\* find({"state": "wait"})
Waiting(q) == {e \in q : e.state = "wait"}

\* The search sorted the wrong way round: sort("ts", DESCENDING).
OldestWaiting_Descending(q) ==
    IF Waiting(q) = {} THEN NoEntry
    ELSE CHOOSE e \in Waiting(q) : \A w \in Waiting(q) : e.ts >= w.ts

\* find({"state": "wait"}).sort("ts", ASCENDING).limit(1), entries[0]; None when empty.
OldestWaiting(q) ==
    IF Waiting(q) = {} THEN NoEntry
    ELSE CHOOSE e \in Waiting(q) : \A w \in Waiting(q) : e.ts <= w.ts

\* The document update_one({"uri": u}, ...) / delete_one({"uri": u}) matches.
Matched(q, u) == CHOOSE e \in q : e.uri = u

\* The document update_one({"uri": u}, {"$set": {"state": "scrape"}}) writes.
Flipped(e) == [e EXCEPT !.state = "scrape"]

\* update_one raises DuplicateKeyError: the rewritten document collides on idx_ts
\* with another document.
FlipRejected(q, u) ==
    /\ HasMatch(q, u)
    /\ Matched(q, u).state # "scrape"
    /\ IdxTsViolated(q \ {Matched(q, u)}, Flipped(Matched(q, u)))

\* An update that writes nothing.
FlipState_Unchanged(q, u) == q

\* The queue after update_one({"uri": u}, {"$set": {"state": "scrape"}}).
FlipState(q, u) ==
    IF HasMatch(q, u)
    THEN (q \ {Matched(q, u)}) \cup {Flipped(Matched(q, u))}
    ELSE q

\* The queue after delete_one({"uri": u}).
DeleteOne(q, u) == IF HasMatch(q, u) THEN q \ {Matched(q, u)} ELSE q

----------------------------------------------------------------------------
\* What the store may hold when the service is constructed: the collections
\* outlive the process, and __init__ only ensures the indices.  Either nothing,
\* or what an earlier run left that enqueued u1 at time 0.
PersistedStores ==
    { <<{}, {}>>,
      <<{[uri |-> "u1", ts |-> 0, state |-> "wait"]},
        {[uri |-> "u1", ts |-> 0, act |-> "enqueue"]}>> }

Init ==
    /\ \E s \in PersistedStores : queue = s[1] /\ action = s[2]
    /\ mutex = Unlocked
    /\ logger = FALSE
    /\ clock = 0
    /\ calls = 0
    /\ pc = [t \in Threads |-> "idle"]
    /\ arg = [t \in Threads |-> ""]
    /\ now = [t \in Threads |-> 0]
    /\ tries_left = [t \in Threads |-> 0]
    /\ entry = [t \in Threads |-> NoEntry]
    /\ result = [t \in Threads |-> "-"]
    /\ cls_instance = 1
    /\ constructed = 1

\* A call ends: the thread is idle again, result holds the outcome and the
\* call's locals are gone.
Finish(t, r) ==
    /\ pc' = [pc EXCEPT ![t] = "idle"]
    /\ result' = [result EXCEPT ![t] = r]
    /\ now' = [now EXCEPT ![t] = 0]
    /\ tries_left' = [tries_left EXCEPT ![t] = 0]
    /\ entry' = [entry EXCEPT ![t] = NoEntry]
    /\ arg' = [arg EXCEPT ![t] = ""]

\* The call goes on at statement next, its locals as they are.
Goto(t, next) ==
    /\ pc' = [pc EXCEPT ![t] = next]
    /\ UNCHANGED <<result, now, tries_left, entry, arg>>

\* A call begins.
Begin(t) ==
    /\ pc[t] = "idle"
    /\ calls < MaxCalls
    /\ calls' = calls + 1

\* now = dt.now(): a reading c of the clock, not earlier than the last one.
Reading(c) ==
    /\ c >= clock
    /\ clock' = c

\* setLogger(logger): self._logger = logger
setLogger(t) ==
    /\ Begin(t)
    /\ ~logger
    /\ logger' = TRUE
    /\ Finish(t, "None")
    /\ UNCHANGED <<queue, action, mutex, clock, cls_instance, constructed>>

----------------------------------------------------------------------------
(* enqueue(recipe_uri)                                                     *)

\* if self.is_enqueued(recipe_uri): return False; now = dt.now()
enqueue(t, u) ==
    /\ Begin(t)
    /\ IF is_enqueued(queue, u)
       THEN /\ Finish(t, "False")
            /\ UNCHANGED clock
       ELSE /\ \E c \in clock .. MaxClock : Reading(c) /\ now' = [now EXCEPT ![t] = c]
            /\ arg' = [arg EXCEPT ![t] = u]
            /\ pc' = [pc EXCEPT ![t] = "enq_insert"]
            /\ result' = [result EXCEPT ![t] = "-"]
            /\ UNCHANGED <<tries_left, entry>>
    /\ UNCHANGED <<queue, action, mutex, logger, cls_instance, constructed>>

\* self._queue.insert_one({"uri": ..., "ts": now, "state": "wait"})
EnqueueInsert(t) ==
    /\ pc[t] = "enq_insert"
    /\ LET d == [uri |-> arg[t], ts |-> now[t], state |-> "wait"] IN
       IF QueueInsertRejected(queue, d)
       THEN /\ Finish(t, "DuplicateKeyError")
            /\ UNCHANGED queue
       ELSE /\ queue' = queue \cup {d}
            /\ Goto(t, "enq_record")
    /\ UNCHANGED <<action, mutex, logger, clock, calls, cls_instance, constructed>>

\* self._action.insert_one({"uri": ..., "ts": now, "act": "enqueue"}); falls off the end
EnqueueRecord(t) ==
    /\ pc[t] = "enq_record"
    /\ LET r == [uri |-> arg[t], ts |-> now[t], act |-> "enqueue"] IN
       IF ActionInsertRejected(action, r)
       THEN /\ Finish(t, "DuplicateKeyError")
            /\ UNCHANGED action
       ELSE /\ action' = action \cup {r}
            /\ Finish(t, "None")
    /\ UNCHANGED <<queue, mutex, logger, clock, calls, cls_instance, constructed>>

----------------------------------------------------------------------------
(* dequeue()                                                               *)

\* entry = None; now = dt.now(); tries_left = 10
dequeue(t) ==
    /\ Begin(t)
    /\ entry' = [entry EXCEPT ![t] = NoEntry]
    /\ \E c \in clock .. MaxClock : Reading(c) /\ now' = [now EXCEPT ![t] = c]
    /\ tries_left' = [tries_left EXCEPT ![t] = TRIES]
    /\ pc' = [pc EXCEPT ![t] = "acquire"]
    /\ result' = [result EXCEPT ![t] = "-"]
    /\ UNCHANGED <<queue, action, mutex, logger, arg, cls_instance, constructed>>

\* mutex.acquire(blocking=True, timeout=3) locks the mutex and returns True.
DequeueAcquire(t) ==
    /\ pc[t] = "acquire"
    /\ mutex = Unlocked
    /\ mutex' = t
    /\ Goto(t, "search")
    /\ UNCHANGED <<queue, action, logger, clock, calls, cls_instance, constructed>>

\* An acquire with no timeout: a call that finds the mutex locked waits.
DequeueAcquireTimeout_Blocking(t) ==
    /\ pc[t] = "acquire"
    /\ mutex # Unlocked
    /\ FALSE
    /\ UNCHANGED vars

\* mutex.acquire(blocking=True, timeout=3) finds the mutex locked (by another
\* thread, or by this thread's earlier pass through the loop), gives up after
\* the timeout and returns False; the return value is discarded.
DequeueAcquireTimeout(t) ==
    /\ pc[t] = "acquire"
    /\ mutex # Unlocked
    /\ Goto(t, "search")
    /\ UNCHANGED <<queue, action, mutex, logger, clock, calls, cls_instance, constructed>>

\* entries = find(wait).sort(ts).limit(1); empty: now += 1s, tries_left -= 1;
\* else entry = entries[0]; then the while test.
DequeueSearch(t) ==
    /\ pc[t] = "search"
    /\ LET e == OldestWaiting(queue) IN
       IF e = NoEntry
       THEN /\ now' = [now EXCEPT ![t] = now[t] + 1]
            /\ tries_left' = [tries_left EXCEPT ![t] = tries_left[t] - 1]
            /\ pc' = [pc EXCEPT ![t] =
                        IF tries_left[t] - 1 > 0 THEN "acquire" ELSE "miss_release"]
            /\ UNCHANGED <<entry, result, arg>>
       ELSE /\ entry' = [entry EXCEPT ![t] = e]
            /\ pc' = [pc EXCEPT ![t] = "flip"]
            /\ UNCHANGED <<now, tries_left, result, arg>>
    /\ UNCHANGED <<queue, action, mutex, logger, clock, calls, cls_instance, constructed>>

\* self._queue.update_one({"uri": entry["uri"]}, {"$set": {"state": "scrape"}})
DequeueFlip(t) ==
    /\ pc[t] = "flip"
    /\ IF FlipRejected(queue, entry[t].uri)
       THEN /\ Finish(t, "DuplicateKeyError")
            /\ UNCHANGED queue
       ELSE /\ queue' = FlipState(queue, entry[t].uri)
            /\ Goto(t, "release")
    /\ UNCHANGED <<action, mutex, logger, clock, calls, cls_instance, constructed>>

\* mutex.release(): RuntimeError when the mutex is not locked.
Release(t, next) ==
    IF mutex = Unlocked
    THEN /\ Finish(t, "RuntimeError")
         /\ UNCHANGED mutex
    ELSE /\ mutex' = Unlocked
         /\ Goto(t, next)

\* mutex.release() after the flip
DequeueRelease(t) ==
    /\ pc[t] = "release"
    /\ Release(t, "record")
    /\ UNCHANGED <<queue, action, logger, clock, calls, cls_instance, constructed>>

\* A dequeue that returns the id without writing the scrape record.
DequeueRecord_NoRecord(t) ==
    /\ pc[t] = "record"
    /\ Finish(t, entry[t].uri)
    /\ UNCHANGED <<queue, action, mutex, logger, clock, calls, cls_instance, constructed>>

\* self._action.insert_one({"uri": ..., "ts": now, "act": "scrape"}); return parse_url(entry["uri"])
DequeueRecord(t) ==
    /\ pc[t] = "record"
    /\ LET r == [uri |-> entry[t].uri, ts |-> now[t], act |-> "scrape"] IN
       IF ActionInsertRejected(action, r)
       THEN /\ Finish(t, "DuplicateKeyError")
            /\ UNCHANGED action
       ELSE /\ action' = action \cup {r}
            /\ Finish(t, entry[t].uri)
    /\ UNCHANGED <<queue, mutex, logger, clock, calls, cls_instance, constructed>>

\* else: mutex.release()
DequeueMissRelease(t) ==
    /\ pc[t] = "miss_release"
    /\ Release(t, "miss_report")
    /\ UNCHANGED <<queue, action, logger, clock, calls, cls_instance, constructed>>

\* What the miss branch ends with: queue_size = find(wait).count();
\* self._logger.debug(...) on a logger that is None raises AttributeError;
\* if not queue_size: raise EmptyQueueException; otherwise falls off the end.
MissOutcome(q, lg) ==
    IF ~lg THEN "AttributeError"
    ELSE IF Waiting(q) = {} THEN "EmptyQueueException"
    ELSE "None"

DequeueMissReport(t) ==
    /\ pc[t] = "miss_report"
    /\ Finish(t, MissOutcome(queue, logger))
    /\ UNCHANGED <<queue, action, mutex, logger, clock, calls, cls_instance, constructed>>

----------------------------------------------------------------------------
(* dequeue_finish(recipe_uri)                                              *)

\* now = dt.now(); count0; self._queue.delete_one({"uri": ...})
dequeue_finish(t, u) ==
    /\ Begin(t)
    /\ \E c \in clock .. MaxClock : Reading(c) /\ now' = [now EXCEPT ![t] = c]
    /\ arg' = [arg EXCEPT ![t] = u]
    /\ queue' = DeleteOne(queue, u)
    /\ pc' = [pc EXCEPT ![t] = "fin_record"]
    /\ result' = [result EXCEPT ![t] = "-"]
    /\ UNCHANGED <<action, mutex, logger, tries_left, entry, cls_instance, constructed>>

\* count1; logger.info(...); self._action.insert_one({"uri": ..., "ts": now, "act": "finish"})
FinishRecord(t) ==
    /\ pc[t] = "fin_record"
    /\ LET r == [uri |-> arg[t], ts |-> now[t], act |-> "finish"] IN
       IF ActionInsertRejected(action, r)
       THEN /\ Finish(t, "DuplicateKeyError")
            /\ UNCHANGED action
       ELSE /\ action' = action \cup {r}
            /\ Finish(t, "None")
    /\ UNCHANGED <<queue, mutex, logger, clock, calls, cls_instance, constructed>>

----------------------------------------------------------------------------
(* RecipeStore.instance                                                    *)

\* The object cls._instance refers to, as a caller sees it.
Obj(i) == IF i = 1 THEN "RecipeStore#1" ELSE "RecipeStore#2"

\* if cls._instance is None: ... ; return cls._instance
instance(t) ==
    /\ Begin(t)
    /\ IF cls_instance # 0
       THEN Finish(t, Obj(cls_instance))
       ELSE /\ pc' = [pc EXCEPT ![t] = "inst_acquire"]
            /\ result' = [result EXCEPT ![t] = "-"]
            /\ UNCHANGED <<now, tries_left, entry, arg>>
    /\ UNCHANGED <<queue, action, mutex, logger, clock, cls_instance, constructed>>

\* mutex.acquire(): blocks, with no timeout, until the mutex is unlocked.
InstanceAcquire(t) ==
    /\ pc[t] = "inst_acquire"
    /\ mutex = Unlocked
    /\ mutex' = t
    /\ Goto(t, "inst_check")
    /\ UNCHANGED <<queue, action, logger, clock, calls, cls_instance, constructed>>

\* try: if cls._instance is None: cls._instance = cls()
InstanceConstruct(t) ==
    /\ pc[t] = "inst_check"
    /\ IF cls_instance = 0
       THEN /\ constructed' = constructed + 1
            /\ cls_instance' = constructed + 1
       ELSE UNCHANGED <<cls_instance, constructed>>
    /\ Goto(t, "inst_release")
    /\ UNCHANGED <<queue, action, mutex, logger, clock, calls>>

\* cls() raises (MongoClient() or _ensure_existence() cannot reach the store):
\* nothing is assigned and the exception is pending while finally runs.
InstanceConstructFails(t) ==
    /\ pc[t] = "inst_check"
    /\ cls_instance = 0
    /\ Goto(t, "inst_raise")
    /\ UNCHANGED <<queue, action, mutex, logger, clock, calls, cls_instance, constructed>>

\* finally: mutex.release(); then return cls._instance, or the pending
\* exception goes on to the caller.
InstanceRelease(t) ==
    /\ pc[t] \in {"inst_release", "inst_raise"}
    /\ IF mutex = Unlocked
       THEN /\ Finish(t, "RuntimeError")
            /\ UNCHANGED mutex
       ELSE /\ mutex' = Unlocked
            /\ Finish(t, IF pc[t] = "inst_raise" THEN "ServerSelectionTimeoutError"
                                                 ELSE Obj(cls_instance))
    /\ UNCHANGED <<queue, action, logger, clock, calls, cls_instance, constructed>>

----------------------------------------------------------------------------
Next ==
    \/ \E t \in Threads : setLogger(t)
    \/ \E t \in Threads, u \in Uris : enqueue(t, u)
    \/ \E t \in Threads : EnqueueInsert(t)
    \/ \E t \in Threads : EnqueueRecord(t)
    \/ \E t \in Threads : dequeue(t)
    \/ \E t \in Threads : DequeueAcquire(t)
    \/ \E t \in Threads : DequeueAcquireTimeout(t)
    \/ \E t \in Threads : DequeueSearch(t)
    \/ \E t \in Threads : DequeueFlip(t)
    \/ \E t \in Threads : DequeueRelease(t)
    \/ \E t \in Threads : DequeueRecord(t)
    \/ \E t \in Threads : DequeueMissRelease(t)
    \/ \E t \in Threads : DequeueMissReport(t)
    \/ \E t \in Threads, u \in Uris : dequeue_finish(t, u)
    \/ \E t \in Threads : FinishRecord(t)

Spec == Init /\ [][Next]_vars

\* The calls made one after the other: no call begins while another is running.
Busy == {t \in Threads : pc[t] # "idle"}

Alone(t) == Busy \subseteq {t}

SeqNext ==
    \/ \E t \in Threads : Alone(t) /\ setLogger(t)
    \/ \E t \in Threads, u \in Uris : Alone(t) /\ enqueue(t, u)
    \/ \E t \in Threads : Alone(t) /\ EnqueueInsert(t)
    \/ \E t \in Threads : Alone(t) /\ EnqueueRecord(t)
    \/ \E t \in Threads : Alone(t) /\ dequeue(t)
    \/ \E t \in Threads : Alone(t) /\ DequeueAcquire(t)
    \/ \E t \in Threads : Alone(t) /\ DequeueAcquireTimeout(t)
    \/ \E t \in Threads : Alone(t) /\ DequeueSearch(t)
    \/ \E t \in Threads : Alone(t) /\ DequeueFlip(t)
    \/ \E t \in Threads : Alone(t) /\ DequeueRelease(t)
    \/ \E t \in Threads : Alone(t) /\ DequeueRecord(t)
    \/ \E t \in Threads : Alone(t) /\ DequeueMissRelease(t)
    \/ \E t \in Threads : Alone(t) /\ DequeueMissReport(t)
    \/ \E t \in Threads, u \in Uris : Alone(t) /\ dequeue_finish(t, u)
    \/ \E t \in Threads : Alone(t) /\ FinishRecord(t)

SeqSpec == Init /\ [][SeqNext]_vars

\* The service used without dequeue_finish: producers and consumers only.
NoFinishNext ==
    \/ \E t \in Threads : setLogger(t)
    \/ \E t \in Threads, u \in Uris : enqueue(t, u)
    \/ \E t \in Threads : EnqueueInsert(t)
    \/ \E t \in Threads : EnqueueRecord(t)
    \/ \E t \in Threads : dequeue(t)
    \/ \E t \in Threads : DequeueAcquire(t)
    \/ \E t \in Threads : DequeueAcquireTimeout(t)
    \/ \E t \in Threads : DequeueSearch(t)
    \/ \E t \in Threads : DequeueFlip(t)
    \/ \E t \in Threads : DequeueRelease(t)
    \/ \E t \in Threads : DequeueRecord(t)
    \/ \E t \in Threads : DequeueMissRelease(t)
    \/ \E t \in Threads : DequeueMissReport(t)

NoFinishSpec == Init /\ [][NoFinishNext]_vars

\* The program from its start: no RecipeStore exists yet, threads reach the
\* service through RecipeStore.instance and call it once it exists.
InstanceInit ==
    /\ \E s \in PersistedStores : queue = s[1] /\ action = s[2]
    /\ mutex = Unlocked
    /\ logger = FALSE
    /\ clock = 0
    /\ calls = 0
    /\ pc = [t \in Threads |-> "idle"]
    /\ arg = [t \in Threads |-> ""]
    /\ now = [t \in Threads |-> 0]
    /\ tries_left = [t \in Threads |-> 0]
    /\ entry = [t \in Threads |-> NoEntry]
    /\ result = [t \in Threads |-> "-"]
    /\ cls_instance = 0
    /\ constructed = 0

InstanceNext ==
    \/ \E t \in Threads : instance(t)
    \/ \E t \in Threads : InstanceAcquire(t)
    \/ \E t \in Threads : InstanceConstruct(t)
    \/ \E t \in Threads : InstanceConstructFails(t)
    \/ \E t \in Threads : InstanceRelease(t)
    \/ \E t \in Threads : cls_instance # 0 /\ setLogger(t)
    \/ \E t \in Threads, u \in Uris : cls_instance # 0 /\ enqueue(t, u)
    \/ \E t \in Threads : EnqueueInsert(t)
    \/ \E t \in Threads : EnqueueRecord(t)
    \/ \E t \in Threads : cls_instance # 0 /\ dequeue(t)
    \/ \E t \in Threads : DequeueAcquire(t)
    \/ \E t \in Threads : DequeueAcquireTimeout(t)
    \/ \E t \in Threads : DequeueSearch(t)
    \/ \E t \in Threads : DequeueFlip(t)
    \/ \E t \in Threads : DequeueRelease(t)
    \/ \E t \in Threads : DequeueRecord(t)
    \/ \E t \in Threads : DequeueMissRelease(t)
    \/ \E t \in Threads : DequeueMissReport(t)
    \/ \E t \in Threads, u \in Uris : cls_instance # 0 /\ dequeue_finish(t, u)
    \/ \E t \in Threads : FinishRecord(t)

InstanceSpec == InstanceInit /\ [][InstanceNext]_vars

\* Only the accesses to RecipeStore.instance, by every thread at once.
AccessNext ==
    \/ \E t \in Threads : instance(t)
    \/ \E t \in Threads : InstanceAcquire(t)
    \/ \E t \in Threads : InstanceConstruct(t)
    \/ \E t \in Threads : InstanceConstructFails(t)
    \/ \E t \in Threads : InstanceRelease(t)

AccessSpec == InstanceInit /\ [][AccessNext]_vars

----------------------------------------------------------------------------
(* Properties.                                                             *)

\* The action records of kind k for uri u.
Records(u, k) == {r \in action : r.uri = u /\ r.act = k}

\* Thread t's call has returned r (or raised r).
Returned(t, r) == pc[t] = "idle" /\ result[t] = r

\* Uri u was enqueued once and never finished: one enqueued record, no
\* finished record, and no enqueue or dequeue_finish of u is running.
EnqueuedOnce(u) ==
    /\ Cardinality(Records(u, "enqueue")) = 1
    /\ Records(u, "finish") = {}
    /\ \A t \in Threads : arg[t] # u

\* C1: over ids that were each enqueued once, no two dequeue calls return the
\* same id: a dequeue that returns such an id is the first one to return it
\* (no started record of an earlier return exists).
C1_NoIdDequeuedTwice ==
    [][\A t \in Threads :
          (pc[t] = "record" /\ pc'[t] = "idle" /\ result'[t] \in Uris
                /\ EnqueuedOnce(result'[t]))
              => Records(result'[t], "scrape") = {}]_vars

\* C2: strict FIFO when the calls run one after the other: a dequeue that
\* returns an id returns the waiting entry with the smallest enqueue timestamp,
\* so every entry still waiting carries a strictly later timestamp than the
\* one returned.
C2_StrictFifo ==
    [][\A t \in Threads :
          (pc[t] = "record" /\ pc'[t] = "idle" /\ result'[t] \in Uris)
              => /\ result'[t] = entry[t].uri
                 /\ \A w \in Waiting(queue') : w.ts > entry[t].ts]_vars

\* C2 witness: a dequeue has returned an id while a later entry is still waiting.
C2_Witness ==
    \E t \in Threads : pc[t] = "idle" /\ result[t] \in Uris /\ Waiting(queue) # {}

\* C3: an enqueue of an id that was not in the queue, having inserted the entry
\* and its action record, returns true.
C3_FirstEnqueueReturnsTrue ==
    [][\A t \in Threads :
          (pc[t] = "enq_record" /\ pc'[t] = "idle" /\ action' # action)
              => result'[t] = "True"]_vars

\* C4: enqueue(id) for an id that has a queue entry, waiting or in progress,
\* returns false and leaves the queue entries and the action log as they were.
C4_EnqueueExistingNoMutation ==
    [][\A t \in Threads, u \in Uris :
          (enqueue(t, u) /\ \E e \in queue : e.uri = u)
              => (queue' = queue /\ action' = action /\ Returned(t, "False")')]_vars

\* C4 witness: an enqueue has returned false for an id whose entry is in progress.
C4_Witness ==
    \E t \in Threads :
        /\ Returned(t, "False")
        /\ queue # {}
        /\ \A e \in queue : e.state = "scrape"

\* C5: an enqueue that passed the existence check and whose insert then meets an
\* entry of the same id (a concurrent enqueue got there first) returns false.
C5_RacingEnqueueReturnsFalse ==
    [][\A t \in Threads :
          (pc[t] = "enq_insert" /\ pc'[t] # "enq_insert"
                /\ \E e \in queue : e.uri = arg[t])
              => Returned(t, "False")']_vars

\* C6: the queue holds at most one entry per id.
C6_OneEntryPerId ==
    \A e1, e2 \in queue : e1.uri = e2.uri => e1 = e2

\* C6 witness: an enqueue that passed the existence check is about to insert an
\* id for which another call has inserted an entry meanwhile.
C6_Witness ==
    \E t \in Threads : pc[t] = "enq_insert" /\ \E e \in queue : e.uri = arg[t]

\* C7: a dequeue that ran alone over a queue with no waiting entry, its ten
\* searches exhausted, fails with EmptyQueueException and changes neither the
\* queue nor the action log.
C7_EmptyQueueRaised ==
    [][\A t \in Threads :
          (pc[t] = "miss_report" /\ pc'[t] = "idle"
                /\ calls = 1 /\ Waiting(queue) = {})
              => /\ Returned(t, "EmptyQueueException")'
                 /\ queue' = queue
                 /\ action' = action]_vars

\* C8: a dequeue whose ten searches all found nothing fails with
\* EmptyQueueException also when an entry is waiting by the time it reports
\* (with a logger set, so that the report itself does not fail).
C8_MissAlwaysRaises ==
    [][\A t \in Threads :
          (pc[t] = "miss_report" /\ pc'[t] = "idle"
                /\ logger /\ Waiting(queue) # {})
              => Returned(t, "EmptyQueueException")']_vars

\* C9: with no dequeue_finish running, when dequeue returns an id the queue
\* entry of that id exists and is in progress: the flip took effect before the
\* return.
C9_InProgressAtReturn ==
    [][\A t \in Threads :
          (pc[t] = "record" /\ pc'[t] = "idle" /\ result'[t] \in Uris)
              => \E e \in queue' : e.uri = result'[t] /\ e.state = "scrape"]_vars

\* C9 witness: an id enqueued in this run has been returned by dequeue and its
\* entry is in progress.
C9_Witness ==
    \E t \in Threads, e \in queue :
        /\ Returned(t, e.uri)
        /\ e.state = "scrape"
        /\ Records(e.uri, "scrape") # {}
        /\ \E r \in Records(e.uri, "enqueue") : r.ts = e.ts

\* C10: an enqueue whose insert finds no entry of its id inserts the waiting
\* entry {uri, ts: now, state: wait}, whatever else the queue holds.
C10_EnqueueAbsentInserts ==
    [][\A t \in Threads :
          (pc[t] = "enq_insert" /\ pc'[t] # "enq_insert"
                /\ ~ \E e \in queue : e.uri = arg[t])
              => queue' = queue \cup {[uri |-> arg[t], ts |-> now[t], state |-> "wait"]}]_vars

\* C11: with the calls made one after the other, dequeue_finish(id) leaves no
\* entry of id in the queue, whatever state the entry was in, and a
\* dequeue_finish(id) of an id that was already finished completes without an
\* error and leaves the queue as it was.
C11_FinishRemovesAndRepeats ==
    [][\A t \in Threads :
          /\ (pc[t] = "idle" /\ pc'[t] = "fin_record")
                => ~ is_enqueued(queue', arg'[t])
          /\ (pc[t] = "fin_record" /\ pc'[t] = "idle"
                /\ Records(arg[t], "finish") # {})
                => (Returned(t, "None")' /\ queue' = queue)]_vars

\* The step of thread t that ends one of its calls with an appended record.
Appends(t) ==
    /\ pc[t] \in {"enq_record", "record", "fin_record"}
    /\ pc'[t] = "idle"
    /\ result'[t] \notin {"DuplicateKeyError", "RuntimeError", "AttributeError",
                          "EmptyQueueException", "False"}

\* The record the call of thread t is about to append.
RecordOf(t) ==
    [uri |-> IF pc[t] = "record" THEN entry[t].uri ELSE arg[t],
     ts  |-> now[t],
     act |-> CASE pc[t] = "enq_record" -> "enqueue"
               [] pc[t] = "record"     -> "scrape"
               [] OTHER                -> "finish"]

OneOf(u, k) == Cardinality(Records(u, k)) = 1

\* C13: for an id with one enqueue, one scrape and (if finished) one finish
\* record, the scrape timestamp is not earlier than the enqueue timestamp and
\* not later than the finish timestamp, so the history sorted by timestamp
\* reads enqueue, scrape, finish.
C13_HistoryOrdered ==
    \A u \in Uris :
        (OneOf(u, "enqueue") /\ OneOf(u, "scrape")) =>
            \A e \in Records(u, "enqueue"), s \in Records(u, "scrape") :
                /\ e.ts <= s.ts
                /\ OneOf(u, "finish") =>
                       \A f \in Records(u, "finish") : s.ts <= f.ts

\* C14: a dequeue whose polling found nothing ends as it does on a service
\* that has a logger, whether or not setLogger was ever called: with
\* EmptyQueueException when nothing is waiting.
C14_OutcomeIgnoresLogger ==
    [][\A t \in Threads :
          (pc[t] = "miss_report" /\ pc'[t] = "idle")
              => result'[t] = MissOutcome(queue, TRUE)]_vars

\* C16: a dequeue call searches and flips only while it holds the mutex, so
\* two calls are never both between their search and their flip.
C16_CriticalSectionExclusive ==
    /\ \A t \in Threads : pc[t] \in {"search", "flip"} => mutex = t
    /\ \A t1, t2 \in Threads : (pc[t1] = "flip" /\ pc[t2] = "flip") => t1 = t2

\* C17: the mutex.release() of a dequeue call runs only when that call holds
\* the mutex: never on a lock another call holds and never on an unlocked one.
C17_ReleaseOnlyOwn ==
    [][\A t \in Threads :
          (pc[t] \in {"release", "miss_release"} /\ pc'[t] # pc[t])
              => mutex = t]_vars

\* C18: the mutex is held only by a dequeue call that is still between its
\* acquire and its release: a call that has ended, by returning an id, by
\* raising after its polling or by a rejected flip, no longer holds it, so the
\* mutex is unlocked whenever no dequeue call is running.
C18_NoLeak ==
    \A t \in Threads :
        pc[t] \notin {"acquire", "search", "flip", "release", "miss_release"}
            => mutex # t

\* The entry of id u in the queue q, or NoEntry.
EntryOf(q, u) == IF HasMatch(q, u) THEN CHOOSE e \in q : e.uri = u ELSE NoEntry

\* C19: an entry is created waiting, goes from waiting to in progress and is
\* removed, and nothing else: no step takes an in-progress entry back to
\* waiting, and the flip of a dequeue call never acts on an entry that is
\* already in progress when the flip is applied.
C19_StateNeverReverts ==
    [][/\ \A u \in Uris :
             LET old == EntryOf(queue, u)
                 new == EntryOf(queue', u)
             IN  \/ new = old
                 \/ old = NoEntry /\ new.state = "wait"
                 \/ old.state = "wait" /\ new = [old EXCEPT !.state = "scrape"]
                 \/ old # NoEntry /\ new = NoEntry
       /\ \A t \in Threads :
             (pc[t] = "flip" /\ pc'[t] = "release")
                 => EntryOf(queue, entry[t].uri).state # "scrape"]_vars

\* The places of a running dequeue call.
DequeuePcs == {"acquire", "search", "flip", "release", "record",
               "miss_release", "miss_report"}

\* The steps a running dequeue call of thread t can take.
DequeueStep(t) ==
    \/ DequeueAcquire(t)
    \/ DequeueAcquireTimeout(t)
    \/ DequeueSearch(t)
    \/ DequeueFlip(t)
    \/ DequeueRelease(t)
    \/ DequeueRecord(t)
    \/ DequeueMissRelease(t)
    \/ DequeueMissReport(t)

\* What a running dequeue call of thread t has left to do at most: three steps
\* per remaining search, then the steps after the loop.
Measure(t) ==
    CASE pc[t] = "acquire"      -> 10 + 3 * tries_left[t] + 2
      [] pc[t] = "search"       -> 10 + 3 * tries_left[t] + 1
      [] pc[t] = "flip"         -> 3
      [] pc[t] = "release"      -> 2
      [] pc[t] = "miss_release" -> 2
      [] pc[t] = "record"       -> 1
      [] pc[t] = "miss_report"  -> 1
      [] OTHER                  -> 0

C15_Singleton ==
    [][/\ constructed' <= 1
       /\ \A t \in Threads :
             (pc[t] \in {"inst_release", "inst_raise"} /\ pc'[t] = "idle")
                 => /\ mutex = t /\ mutex' = Unlocked
                    /\ pc[t] = "inst_release"
                          => (cls_instance = 1 /\ Returned(t, Obj(1))')
                    /\ pc[t] = "inst_raise"
                          => (cls_instance' = 0
                                /\ Returned(t, "ServerSelectionTimeoutError")')
       /\ \A t \in Threads :
             (pc[t] = "idle" /\ pc'[t] = "idle" /\ calls' # calls
                   /\ result'[t] \in {Obj(1), Obj(2)})
                 => result'[t] = Obj(1)]_vars

====
